---- MODULE Spec2Model ----
(***************************************************************************)
(* Model of orca_addGradientInfill.py: process_gcode_file reads a G-code   *)
(* file, walks its lines once, rewrites the extrusion moves of the Infill   *)
(* sections and writes the file back in place.                              *)
(*                                                                          *)
(* Numbers.  Python floats are modelled as fixed-point integers counting    *)
(* hundredths: the float v is the integer v * Unit.  Multiplication and     *)
(* division renormalise (Mul, Div) and round towards minus infinity; the    *)
(* square root is the integer square root.  Every value of the model stays  *)
(* below 2^31.                                                              *)
(*                                                                          *)
(* Lines.  A line of text is a record of its fields: the leading word       *)
(* (head), the X, Y, E and F fields and whether it still carries its end of *)
(* line.  A field is Absent, Num(v) or Garbled (the letter is there, the    *)
(* number after it is not one float() accepts).                             *)
(***************************************************************************)
EXTENDS Integers, Sequences, FiniteSets, TLC

VARIABLES pc, disk, cfg, gcode_lines, idx, lines, edit, currentSection,
          lastPosition, relative_extrusion, relative_extrusion_set,
          g2_g3_used, g2_g3_lines, g1_feedrate, perimeterSegments,
          infill_type, newF, stats, failure

vars == <<pc, disk, cfg, gcode_lines, idx, lines, edit, currentSection,
          lastPosition, relative_extrusion, relative_extrusion_set,
          g2_g3_used, g2_g3_lines, g1_feedrate, perimeterSegments,
          infill_type, newF, stats, failure>>

----------------------------------------------------------------------------
(* Bounds *)

\* Number of free lines that follow the file's opening lines.
MaxBody == 2

----------------------------------------------------------------------------
(* Fixed-point arithmetic *)

Unit == 10 * 10

Fix(n) == n * Unit

Mul(a, b) == (a * b) \div Unit

Div(a, b) == (a * Unit) \div b

Max2(a, b) == IF a >= b THEN a ELSE b

Min2(a, b) == IF a <= b THEN a ELSE b

RECURSIVE SqrtBetween(_, _, _)
SqrtBetween(n, lo, hi) ==
    IF lo >= hi THEN lo
    ELSE LET mid == (lo + hi + 1) \div 2
         IN IF mid * mid <= n THEN SqrtBetween(n, mid, hi)
                              ELSE SqrtBetween(n, lo, mid - 1)

\* x ** 0.5
Sqrt(n) == SqrtBetween(n, 0, 46340)

\* float('inf'): larger than every distance, < and min() treat it as such.
inf == 1000000000

----------------------------------------------------------------------------
(* Text fields and lines *)

Absent == <<>>

Num(v) == <<v>>

Garbled == <<0, 0>>

Has(f) == f # Absent

IsNum(f) == Len(f) = 1

\* float(text)
float(f) == f[1]

\* round(v, digits): the values of the model carry two decimals, so only a
\* rounding to fewer digits than that changes them.
round(v, digits) ==
    IF digits >= 2 THEN v
    ELSE IF digits = 1 THEN ((v + 5) \div 10) * 10
         ELSE ((v + 50) \div Unit) * Unit

GLine(head, X, Y, E, F) ==
    [head |-> head, X |-> X, Y |-> Y, E |-> E, F |-> F, nl |-> TRUE]

Word(head) == GLine(head, Absent, Absent, Absent, Absent)

\* str.strip(): drops the end of line (the lines of the model have no other
\* leading or trailing blank).
strip(line) == [line EXCEPT !.nl = FALSE]

Point2D(x, y) == [x |-> x, y |-> y]

Segment(point1, point2) == [point1 |-> point1, point2 |-> point2]

NOTHING == "NOTHING"

INNER_WALL == "INNER_WALL"

INFILL == "INFILL"

SMALL_SEGMENTS == "SMALL_SEGMENTS"

LINEAR == "LINEAR"

----------------------------------------------------------------------------
(* Geometric primitives *)

dist(segment, point) ==
    LET px == segment.point2.x - segment.point1.x
        py == segment.point2.y - segment.point1.y
        norm == px * px + py * py
    IN IF norm = 0 THEN 0
       ELSE LET u0 == (((point.x - segment.point1.x) * px
                        + (point.y - segment.point1.y) * py) * Unit) \div norm
                u == Max2(Min2(u0, Unit), 0)
                x == segment.point1.x + Mul(u, px)
                y == segment.point1.y + Mul(u, py)
                dx == x - point.x
                dy == y - point.y
            IN Sqrt(dx * dx + dy * dy)

get_points_distance(point1, point2) ==
    Sqrt((point1.x - point2.x) * (point1.x - point2.x)
         + (point1.y - point2.y) * (point1.y - point2.y))

RECURSIVE MinDist(_, _, _)
MinDist(segments, point, k) ==
    IF k = Len(segments) THEN dist(segments[k], point)
    ELSE Min2(dist(segments[k], point), MinDist(segments, point, k + 1))

min_distance_from_segment(segment, segments) ==
    LET middlePoint == Point2D((segment.point1.x + segment.point2.x) \div 2,
                               (segment.point1.y + segment.point2.y) \div 2)
    IN IF segments # <<>> THEN MinDist(segments, middlePoint, 1) ELSE inf

mapRange(a1, a2, b1, b2, s) ==
    IF a2 - a1 = 0 THEN b1
    ELSE b1 + (((s - a1) * (b2 - b1)) \div (a2 - a1))

reduce_by_percentage(value, percentage) ==
    Div(value, percentage \div 100)

----------------------------------------------------------------------------
(* Line classifier *)

\* The heads that start with ";TYPE:".
TypeHeads == {";TYPE:Inner wall", ";TYPE:Outer wall", ";TYPE:Solid infill",
              ";TYPE:Skin", ";TYPE:Sparse infill", ";TYPE:Infill",
              ";TYPE:Bridge"}

prog_type(line) == line.head \in TypeHeads

prog_move(line) ==
    line.head \in {"G0", "G1"} /\ Has(line.X) /\ Has(line.Y)

prog_extrusion(line) ==
    line.head = "G1" /\ Has(line.X) /\ Has(line.Y) /\ Has(line.E)

prog_g2_g3(line) == line.head \in {"G2", "G3"}

prog_relative_extrusion(line) == line.head = "M83"

prog_absolute_extrusion(line) == line.head = "M82"

prog_g1_feedrate(line) == line.head = "G1" /\ IsNum(line.F)

is_begin_layer_line(line) == line.head \in {";LAYER_CHANGE", ";LAYER:"}

is_begin_inner_wall_line(line) == line.head = ";TYPE:Inner wall"

is_end_inner_wall_line(line) ==
    line.head \in {";TYPE:Outer wall", ";TYPE:Solid infill", ";TYPE:Skin"}

is_begin_infill_segment_line(line) ==
    line.head \in {";TYPE:Sparse infill", ";TYPE:Infill"}

\* A substring test in the program ("G1" in line and " X" in line ...); on
\* the lines of the model it selects the same lines as prog_extrusion.
is_extrusion_line(line) ==
    line.head = "G1" /\ Has(line.X) /\ Has(line.Y) /\ Has(line.E)

\* getXY raises when a coordinate is missing or is no number.
getXY_raises(line) == ~(IsNum(line.X) /\ IsNum(line.Y))

getXY(line) == Point2D(float(line.X), float(line.Y))

get_extrusion_command(x, y, extrusion, feedrate) ==
    GLine("G1", Num(round(x, 3)), Num(round(y, 3)), Num(round(extrusion, 5)),
          IF feedrate > 0 THEN Num(round(feedrate, 3)) ELSE Absent)

----------------------------------------------------------------------------
(* Infill-pattern detector *)

SmallSegmentPatterns ==
    {"gyroid", "honeycomb", "adaptivecubic", "cubic", "tetrahedral"}

\* The pattern name of a "; sparse_infill_pattern = <name>" line, "" for
\* any other line.
PatternOf(line) ==
    IF line.head = "; sparse_infill_pattern = gyroid" THEN "gyroid"
    ELSE IF line.head = "; sparse_infill_pattern = rectilinear"
         THEN "rectilinear"
         ELSE ""

RECURSIVE FirstPattern(_, _)
FirstPattern(ls, k) ==
    IF k > Len(ls) THEN ""
    ELSE IF PatternOf(ls[k]) # "" THEN PatternOf(ls[k])
         ELSE FirstPattern(ls, k + 1)

extract_infill_type(ls) ==
    LET sparse_infill_pattern == FirstPattern(ls, 1)
    IN IF sparse_infill_pattern # ""
       THEN IF sparse_infill_pattern \in SmallSegmentPatterns
            THEN SMALL_SEGMENTS ELSE LINEAR
       ELSE LINEAR

----------------------------------------------------------------------------
(* Gradient rewriter *)

\* gradientDiscretizationLength with its operands exchanged.
gradientDiscretizationLength_swapped(c) ==
    Div(c.gradient_discretization, c.gradient_thickness)

gradientDiscretizationLength(c) ==
    Div(c.gradient_thickness, c.gradient_discretization)

\* extrusion_ratio with the ends of the output range exchanged.
extrusion_ratio_swapped(last, segmentEnd, perims, c) ==
    LET shortestDistance ==
            min_distance_from_segment(Segment(last, segmentEnd), perims)
    IN mapRange(0, c.gradient_thickness,
                c.min_flow \div 100, c.max_flow \div 100,
                Min2(shortestDistance, c.gradient_thickness))

\* The flow multiplier of one sub-segment of a subdivided move.
extrusion_ratio(last, segmentEnd, perims, c) ==
    LET shortestDistance ==
            min_distance_from_segment(Segment(last, segmentEnd), perims)
    IN mapRange(0, c.gradient_thickness,
                c.max_flow \div 100, c.min_flow \div 100,
                Min2(shortestDistance, c.gradient_thickness))

\* The body of "for _ in range(int(segmentSteps))": the lines of the n
\* sub-segments walked from last in steps of direction.
RECURSIVE SubSegments(_, _, _, _, _, _, _)
SubSegments(n, last, direction, extrusionLengthPerSegment, feed, perims, c) ==
    IF n = 0 THEN <<>>
    ELSE LET segmentEnd == Point2D(last.x + direction.x, last.y + direction.y)
             ratio == extrusion_ratio(last, segmentEnd, perims, c)
             segmentExtrusion == Mul(extrusionLengthPerSegment, ratio)
             feedrate == reduce_by_percentage(feed, Mul(ratio, Fix(100)))
         IN <<get_extrusion_command(segmentEnd.x, segmentEnd.y,
                                    segmentExtrusion, feedrate)>>
            \o SubSegments(n - 1, segmentEnd, direction,
                           extrusionLengthPerSegment, feed, perims, c)

segmentSteps(last, currentPosition, c) ==
    LET segmentLength == get_points_distance(last, currentPosition)
    IN IF segmentLength = 0 THEN Fix(1)
       ELSE Div(segmentLength, gradientDiscretizationLength(c))

segmentDirection(last, currentPosition, c) ==
    LET steps == segmentSteps(last, currentPosition, c)
    IN Point2D(IF steps # 0 THEN Div(currentPosition.x - last.x, steps) ELSE 0,
               IF steps # 0 THEN Div(currentPosition.y - last.y, steps) ELSE 0)

\* LinearFallback scaling by the minimum flow.
LinearFallback_min(currentLine, feed, c) ==
    [currentLine EXCEPT
        !.E = Num(round(Mul(float(@), c.min_flow) \div 100, 5)),
        !.F = IF Has(@) THEN @
              ELSE Num(reduce_by_percentage(feed, c.min_flow))]

\* The single line written for a move too short to subdivide.
LinearFallback(currentLine, feed, c) ==
    [currentLine EXCEPT
        !.E = Num(round(Mul(float(@), c.max_flow) \div 100, 5)),
        !.F = IF Has(@) THEN @
              ELSE Num(reduce_by_percentage(feed, c.max_flow))]

\* The lines written for one infill extrusion move under the LINEAR type.
LinearRewrite(currentLine, currentPosition, last, feed, perims, c) ==
    LET extrusionLength == float(currentLine.E)
        segmentLength == get_points_distance(last, currentPosition)
        steps == segmentSteps(last, currentPosition, c)
        extrusionLengthPerSegment ==
            IF steps # 0 THEN Div(extrusionLength, steps) ELSE 0
        direction == segmentDirection(last, currentPosition, c)
        n == steps \div Unit
        walked == Point2D(last.x + n * direction.x, last.y + n * direction.y)
        segmentLengthRatio ==
            IF segmentLength # 0
            THEN Div(get_points_distance(walked, currentPosition), segmentLength)
            ELSE 0
    IN IF steps >= Fix(2)
       THEN SubSegments(n, last, direction, extrusionLengthPerSegment,
                        feed, perims, c)
            \o <<get_extrusion_command(
                    currentPosition.x, currentPosition.y,
                    Mul(Mul(segmentLengthRatio, extrusionLength), c.max_flow)
                        \div 100,
                    reduce_by_percentage(feed, c.max_flow))>>
       ELSE <<LinearFallback(currentLine, feed, c)>>

\* The local newF after the SMALL_SEGMENTS branch: assigned only when the
\* move is nearer than the gradient thickness and has no F of its own.
SmallSegmentsNewF(currentLine, shortestDistance, feed, prevF, c) ==
    IF ~Has(currentLine.F) /\ shortestDistance < c.gradient_thickness
    THEN Num(Div(feed, mapRange(0, c.gradient_thickness,
                                c.max_flow \div 100, c.min_flow \div 100,
                                shortestDistance)))
    ELSE prevF

SmallSegmentsNewE(currentLine, shortestDistance, c) ==
    IF shortestDistance < c.gradient_thickness
    THEN Mul(float(currentLine.E),
             mapRange(0, c.gradient_thickness,
                      c.max_flow \div 100, c.min_flow \div 100,
                      shortestDistance))
    ELSE Mul(float(currentLine.E), c.min_flow) \div 100

\* The line written for one infill extrusion move under SMALL_SEGMENTS;
\* f is the value of newF when the F field is appended.
SmallSegmentsRewrite(currentLine, shortestDistance, f, c) ==
    [currentLine EXCEPT
        !.E = Num(round(SmallSegmentsNewE(currentLine, shortestDistance, c), 5)),
        !.F = IF Has(@) THEN @ ELSE Num(round(float(f), 3))]

----------------------------------------------------------------------------
(* Section tracker *)

\* SectionAfter without its final else: a marker that is neither a wall nor
\* an infill marker leaves the section as it was.
SectionAfter_keeps(section, currentLine) ==
    IF prog_type(currentLine)
    THEN IF is_begin_inner_wall_line(currentLine) THEN INNER_WALL
         ELSE IF is_end_inner_wall_line(currentLine) THEN NOTHING
         ELSE IF is_begin_infill_segment_line(currentLine) THEN INFILL
         ELSE section
    ELSE section

SectionAfter(section, currentLine) ==
    IF prog_type(currentLine)
    THEN IF is_begin_inner_wall_line(currentLine) THEN INNER_WALL
         ELSE IF is_end_inner_wall_line(currentLine) THEN NOTHING
         ELSE IF is_begin_infill_segment_line(currentLine) THEN INFILL
         ELSE NOTHING
    ELSE section

ExtrusionModeAfter(mode, currentLine) ==
    IF prog_relative_extrusion(currentLine) THEN TRUE
    ELSE IF prog_absolute_extrusion(currentLine) THEN FALSE
    ELSE mode

\* g1_feedrate after the section marker test: a begin-infill marker resets it.
FeedrateAfterMarker(feed, currentLine) ==
    IF prog_type(currentLine)
       /\ ~is_begin_inner_wall_line(currentLine)
       /\ ~is_end_inner_wall_line(currentLine)
       /\ is_begin_infill_segment_line(currentLine)
    THEN 0 ELSE feed

\* g1_feedrate after the feedrate match inside the Infill section.
FeedrateAfterMatch(feed, currentLine) ==
    IF prog_g1_feedrate(currentLine) THEN float(currentLine.F) ELSE feed

----------------------------------------------------------------------------
(* Input files and configurations *)

M83 == Word("M83")

M82 == Word("M82")

InnerWallMarker == Word(";TYPE:Inner wall")

OuterWallMarker == Word(";TYPE:Outer wall")

SparseInfillMarker == Word(";TYPE:Sparse infill")

BridgeMarker == Word(";TYPE:Bridge")

LayerChange == Word(";LAYER_CHANGE")

GyroidHeader == Word("; sparse_infill_pattern = gyroid")

\* G0 Xx Yy [Ff]
Travel(x, y, F) == GLine("G0", Num(Fix(x)), Num(Fix(y)), Absent, F)

\* G1 Xx Yy Ff (a move at the speed f that extrudes nothing)
Position(x, y, f) == GLine("G1", Num(Fix(x)), Num(Fix(y)), Absent, Num(Fix(f)))

\* G1 Xx Yy Ee [Ff]
Extrude(x, y, e, F) == GLine("G1", Num(Fix(x)), Num(Fix(y)), Num(Fix(e)), F)

\* G2 Xx Yy Ee (an arc; its centre fields are not read by the program)
Arc(x, y, e) == GLine("G2", Num(Fix(x)), Num(Fix(y)), Num(Fix(e)), Absent)

\* The free lines of a file.
BodyLines ==
    { M83, M82, InnerWallMarker, OuterWallMarker, SparseInfillMarker,
      BridgeMarker, LayerChange,
      Travel(0, 5, Num(Fix(1200))),
      Extrude(10, 5, 1, Absent),
      Extrude(10, 10, 1, Num(Fix(600))),
      Extrude(1, 5, 2, Absent),
      Arc(5, 5, 1),
      GLine("G1", Garbled, Num(Fix(5)), Num(Fix(1)), Absent),
      GLine("G1", Num(Fix(10)), Num(Fix(5)), Garbled, Absent) }

\* The opening lines of a file.  Each starts with a positioning move, as a
\* slicer's start sequence does, so that no distance is measured from the
\* program's initial position.
Openings ==
    { <<Travel(0, 0, Absent)>>,
      <<Travel(0, 0, Absent), GyroidHeader>>,
      <<Travel(0, 5, Absent), M83, SparseInfillMarker>>,
      <<Travel(0, 5, Absent), GyroidHeader, M83, SparseInfillMarker>>,
      <<Travel(0, 0, Absent), M83, InnerWallMarker, Extrude(10, 0, 1, Absent),
        SparseInfillMarker, Position(0, 5, 1200)>>,
      <<Travel(0, 0, Absent), GyroidHeader, M83, InnerWallMarker,
        Extrude(10, 0, 1, Absent), SparseInfillMarker,
        Position(0, 5, 1200)>> }

Bodies == UNION { [1..n -> BodyLines] : n \in 0..MaxBody }

Files == { o \o b : o \in Openings, b \in Bodies }

DEFAULT_MAX_FLOW == 250

DEFAULT_MIN_FLOW == 50

DEFAULT_GRADIENT_THICKNESS == 6

DEFAULT_GRADIENT_DISCRETIZATION == 4

Config(max, min, thickness, discretization) ==
    [max_flow |-> Fix(max), min_flow |-> Fix(min),
     gradient_thickness |-> Fix(thickness),
     gradient_discretization |-> Fix(discretization)]

\* The arguments of process_gcode_file: the defaults, and an override.
Configs ==
    { Config(DEFAULT_MAX_FLOW, DEFAULT_MIN_FLOW,
             DEFAULT_GRADIENT_THICKNESS, DEFAULT_GRADIENT_DISCRETIZATION),
      Config(200, 50, 4, 2) }

----------------------------------------------------------------------------
(* Pipeline driver *)

\* The failure that ends the iteration on currentLine, "none" if it
\* completes.
Raises(currentLine) ==
    LET section == SectionAfter(currentSection, currentLine)
        mode == ExtrusionModeAfter(relative_extrusion_set, currentLine)
    IN IF section = INNER_WALL /\ is_extrusion_line(currentLine)
          /\ getXY_raises(currentLine)
       THEN "getXY"
       ELSE IF section = INFILL
       THEN IF ~mode THEN "exit"
            ELSE IF prog_extrusion(currentLine)
            THEN IF getXY_raises(currentLine) THEN "getXY"
                 ELSE IF ~IsNum(currentLine.E) THEN "float"
                 ELSE IF infill_type = SMALL_SEGMENTS
                         /\ ~Has(currentLine.F)
                         /\ ~Has(SmallSegmentsNewF(
                                currentLine,
                                min_distance_from_segment(
                                    Segment(lastPosition, getXY(currentLine)),
                                    perimeterSegments),
                                FeedrateAfterMatch(
                                    FeedrateAfterMarker(g1_feedrate, currentLine),
                                    currentLine),
                                newF, cfg))
                 THEN "UnboundLocalError"
                 ELSE "none"
            ELSE IF prog_move(currentLine) /\ getXY_raises(currentLine)
                 THEN "getXY"
                 ELSE "none"
       ELSE IF prog_move(currentLine) /\ getXY_raises(currentLine)
            THEN "getXY"
            ELSE "none"

\* Written as it would be without the writtenToFile flag: in the Infill
\* section the move branch and the pass-through branch would each append
\* the line again.
Written_unflagged(currentLine) ==
    LET section == SectionAfter(currentSection, currentLine)
        feed == FeedrateAfterMatch(
                    FeedrateAfterMarker(g1_feedrate, currentLine), currentLine)
    IN IF section = INFILL
       THEN (IF prog_extrusion(currentLine)
             THEN IF infill_type = LINEAR
                  THEN LinearRewrite(currentLine, getXY(currentLine),
                                     lastPosition, feed, perimeterSegments,
                                     cfg)
                  ELSE LET shortestDistance ==
                               min_distance_from_segment(
                                   Segment(lastPosition, getXY(currentLine)),
                                   perimeterSegments)
                       IN <<SmallSegmentsRewrite(
                              currentLine, shortestDistance,
                              SmallSegmentsNewF(currentLine, shortestDistance,
                                                feed, newF, cfg),
                              cfg)>>
             ELSE <<>>)
            \o (IF prog_move(currentLine) THEN <<currentLine>> ELSE <<>>)
            \o <<currentLine>>
       ELSE <<currentLine>>

\* The lines the iteration on currentLine appends to the output.
Written(currentLine) ==
    LET section == SectionAfter(currentSection, currentLine)
        feed == FeedrateAfterMatch(
                    FeedrateAfterMarker(g1_feedrate, currentLine), currentLine)
    IN IF section = INFILL /\ prog_extrusion(currentLine)
       THEN IF infill_type = LINEAR
            THEN LinearRewrite(currentLine, getXY(currentLine), lastPosition,
                               feed, perimeterSegments, cfg)
            ELSE LET shortestDistance ==
                         min_distance_from_segment(
                             Segment(lastPosition, getXY(currentLine)),
                             perimeterSegments)
                 IN <<SmallSegmentsRewrite(
                        currentLine, shortestDistance,
                        SmallSegmentsNewF(currentLine, shortestDistance, feed,
                                          newF, cfg),
                        cfg)>>
       ELSE <<currentLine>>

\* ArcSeen without the test of the section.
ArcSeen_anywhere(section, currentLine) == prog_g2_g3(currentLine)

\* The G2/G3 test, made only in the Infill section.
ArcSeen(section, currentLine) ==
    section = INFILL /\ prog_g2_g3(currentLine)

\* PerimeterAfter as it would be if the walls were collected per layer.
PerimeterAfter_per_layer(segments, section, currentLine, last) ==
    IF is_begin_layer_line(currentLine) THEN <<>>
    ELSE IF section = INNER_WALL /\ is_extrusion_line(currentLine)
    THEN Append(segments, Segment(getXY(currentLine), last))
    ELSE segments

PerimeterAfter(segments, section, currentLine, last) ==
    IF section = INNER_WALL /\ is_extrusion_line(currentLine)
    THEN Append(segments, Segment(getXY(currentLine), last))
    ELSE segments

\* EditAfter as it would be if every written line of a rewrite were counted.
EditAfter_per_written_line(count, rewritten, written) ==
    IF rewritten THEN count + Len(written) ELSE count

\* The modification counter after an iteration: "edit += 1" closes both
\* rewrite branches, whatever the number of lines the rewrite appended.
EditAfter(count, rewritten, written) ==
    IF rewritten THEN count + 1 ELSE count

Init ==
    /\ pc = "start"
    /\ disk \in Files
    /\ cfg \in Configs
    /\ gcode_lines = <<>>
    /\ idx = 0
    /\ lines = <<>>
    /\ edit = 0
    /\ stats = [total_lines |-> 0, modifications_made |-> 0]
    /\ currentSection = NOTHING
    /\ lastPosition = Point2D(Fix(-10000), Fix(-10000))
    /\ relative_extrusion = FALSE
    /\ g2_g3_used = FALSE
    /\ g2_g3_lines = <<>>
    /\ relative_extrusion_set = FALSE
    /\ g1_feedrate = 0
    /\ perimeterSegments = <<>>
    /\ infill_type = "None"
    /\ newF = Absent
    /\ failure = "none"

\* Read the file and detect the infill type.
ReadFile ==
    /\ pc = "start"
    /\ gcode_lines' = disk
    /\ stats' = [stats EXCEPT !.total_lines = Len(disk)]
    /\ infill_type' = extract_infill_type(disk)
    /\ idx' = 1
    /\ pc' = "loop"
    /\ UNCHANGED <<disk, cfg, lines, edit, currentSection, lastPosition,
                   relative_extrusion, relative_extrusion_set, g2_g3_used,
                   g2_g3_lines, g1_feedrate, perimeterSegments, newF, failure>>

\* One iteration of "for currentLine in gcode_lines" that completes.
ProcessLine ==
    /\ pc = "loop"
    /\ idx <= Len(gcode_lines)
    /\ LET currentLine == gcode_lines[idx]
           section == SectionAfter(currentSection, currentLine)
           rewritten == section = INFILL /\ prog_extrusion(currentLine)
           feed == IF section = INFILL
                   THEN FeedrateAfterMatch(
                            FeedrateAfterMarker(g1_feedrate, currentLine),
                            currentLine)
                   ELSE FeedrateAfterMarker(g1_feedrate, currentLine)
       IN /\ Raises(currentLine) = "none"
          /\ relative_extrusion_set' =
                 ExtrusionModeAfter(relative_extrusion_set, currentLine)
          /\ currentSection' = section
          /\ perimeterSegments' =
                 PerimeterAfter(perimeterSegments, section, currentLine,
                                lastPosition)
          /\ g2_g3_used' = (g2_g3_used \/ ArcSeen(section, currentLine))
          /\ g2_g3_lines' =
                 IF ArcSeen(section, currentLine)
                 THEN Append(g2_g3_lines, strip(currentLine))
                 ELSE g2_g3_lines
          /\ g1_feedrate' = feed
          /\ newF' =
                 IF rewritten /\ infill_type = SMALL_SEGMENTS
                 THEN SmallSegmentsNewF(
                          currentLine,
                          min_distance_from_segment(
                              Segment(lastPosition, getXY(currentLine)),
                              perimeterSegments),
                          feed, newF, cfg)
                 ELSE newF
          /\ lines' = lines \o Written(currentLine)
          /\ edit' = EditAfter(edit, rewritten, Written(currentLine))
          /\ lastPosition' =
                 IF prog_move(currentLine) THEN getXY(currentLine)
                 ELSE lastPosition
    /\ idx' = idx + 1
    /\ UNCHANGED <<pc, disk, cfg, gcode_lines, relative_extrusion,
                   infill_type, stats, failure>>

\* FatalError as it would be if the output were flushed when the run stops.
FatalError_flushes ==
    /\ pc = "loop"
    /\ idx <= Len(gcode_lines)
    /\ Raises(gcode_lines[idx]) # "none"
    /\ failure' = Raises(gcode_lines[idx])
    /\ pc' = "fatal"
    /\ disk' = lines
    /\ UNCHANGED <<cfg, gcode_lines, idx, lines, edit, currentSection,
                   lastPosition, relative_extrusion, relative_extrusion_set,
                   g2_g3_used, g2_g3_lines, g1_feedrate, perimeterSegments,
                   infill_type, newF, stats>>

\* An iteration that ends the run: exit(1) or an exception, none of which
\* process_gcode_file catches.
FatalError ==
    /\ pc = "loop"
    /\ idx <= Len(gcode_lines)
    /\ Raises(gcode_lines[idx]) # "none"
    /\ failure' = Raises(gcode_lines[idx])
    /\ pc' = "fatal"
    /\ UNCHANGED <<disk, cfg, gcode_lines, idx, lines, edit, currentSection,
                   lastPosition, relative_extrusion, relative_extrusion_set,
                   g2_g3_used, g2_g3_lines, g1_feedrate, perimeterSegments,
                   infill_type, newF, stats>>

\* After the loop: fill the run statistics.
CollectStats ==
    /\ pc = "loop"
    /\ idx > Len(gcode_lines)
    /\ stats' = [total_lines |-> stats.total_lines,
                 modifications_made |-> edit,
                 relative_extrusion |-> relative_extrusion,
                 g2_g3_used |-> g2_g3_used,
                 g2_g3_lines |-> IF g2_g3_used THEN g2_g3_lines ELSE <<>>,
                 changes_made |-> (edit # 0),
                 infill_type |-> infill_type]
    /\ pc' = "write"
    /\ UNCHANGED <<disk, cfg, gcode_lines, idx, lines, edit, currentSection,
                   lastPosition, relative_extrusion, relative_extrusion_set,
                   g2_g3_used, g2_g3_lines, g1_feedrate, perimeterSegments,
                   infill_type, newF, failure>>

\* Write the output lines back to the same file and return the statistics.
WriteFile ==
    /\ pc = "write"
    /\ disk' = lines
    /\ pc' = "done"
    /\ UNCHANGED <<cfg, gcode_lines, idx, lines, edit, currentSection,
                   lastPosition, relative_extrusion, relative_extrusion_set,
                   g2_g3_used, g2_g3_lines, g1_feedrate, perimeterSegments,
                   infill_type, newF, stats, failure>>

Next == ReadFile \/ ProcessLine \/ FatalError \/ CollectStats \/ WriteFile

Spec == Init /\ [][Next]_vars

----------------------------------------------------------------------------
(* Properties *)

\* The lines of the file processed so far.
Processed == idx - 1

Running == pc = "loop" /\ idx <= Len(gcode_lines)

\* C1: a run that ends in a fatal error (the extrusion-mode policy check, a
\* coordinate that does not parse, an extrusion value that does not parse)
\* has written nothing: the file on disk still holds exactly the lines that
\* were read.
C1_FatalWritesNothing ==
    pc = "fatal" => (failure # "none" /\ disk = gcode_lines)

\* A run that stopped on an unparsable extrusion value after it had already
\* rewritten an infill move.
C1_Witness ==
    /\ pc = "fatal"
    /\ failure = "float"
    /\ edit > 0
    /\ lines # SubSeq(gcode_lines, 1, Processed)

\* C2: the extrusion-mode policy check stops the run only on an infill
\* extrusion move; a line of the Infill section that is not an extrusion
\* move (the marker, a comment, a travel move, another command) never does.
C2_PolicyCheckOnExtrusionOnly ==
    (pc = "fatal" /\ failure = "exit") => prog_extrusion(gcode_lines[idx])

\* C8: after a completed run the statistics' relative-extrusion flag is
\* true when an M83 was observed and infill lines were rewritten, and it is
\* false only when no M83 was observed.
M83Observed == \E k \in 1..Len(gcode_lines) : gcode_lines[k].head = "M83"

C8_RelativeExtrusionReported ==
    pc = "done" =>
        /\ (M83Observed /\ edit > 0) => stats.relative_extrusion
        /\ ~stats.relative_extrusion => ~M83Observed

\* The index of the most recent section marker among the first k lines, 0
\* when there is none.
RECURSIVE LastMarker(_, _)
LastMarker(ls, k) ==
    IF k = 0 THEN 0
    ELSE IF ls[k].head \in TypeHeads THEN k ELSE LastMarker(ls, k - 1)

SectionByLastMarker(ls, k) ==
    LET m == LastMarker(ls, k)
    IN IF m = 0 THEN NOTHING
       ELSE IF ls[m].head = ";TYPE:Inner wall" THEN INNER_WALL
       ELSE IF ls[m].head \in {";TYPE:Sparse infill", ";TYPE:Infill"}
            THEN INFILL
       ELSE NOTHING

\* C9: after any processed prefix of the file the current section is the
\* one named by the most recent section marker of that prefix (InnerWall,
\* Infill, None for an end-inner-wall or any other marker) and None when the
\* prefix holds no marker; other lines do not change it.
C9_SectionIsLastMarker ==
    pc # "start" =>
        currentSection = SectionByLastMarker(gcode_lines, Processed)

\* The section went back to None on a marker that is neither a wall nor an
\* infill marker, after an Infill section, and a later line that is no
\* marker left it there.
C9_Witness ==
    /\ pc = "loop"
    /\ Processed >= 3
    /\ LET m == LastMarker(gcode_lines, Processed)
       IN /\ 1 < m /\ m < Processed
          /\ gcode_lines[m].head = ";TYPE:Bridge"
          /\ SectionByLastMarker(gcode_lines, m - 1) = INFILL
    /\ currentSection = NOTHING

\* An infill extrusion move is about to be processed: the section is Infill,
\* relative extrusion is on and the line's fields parse.
InfillMove ==
    /\ Running
    /\ SectionAfter(currentSection, gcode_lines[idx]) = INFILL
    /\ ExtrusionModeAfter(relative_extrusion_set, gcode_lines[idx])
    /\ gcode_lines[idx].head = "G1"
    /\ IsNum(gcode_lines[idx].X)
    /\ IsNum(gcode_lines[idx].Y)
    /\ IsNum(gcode_lines[idx].E)

\* The feedrate in force for the move about to be processed.
currentFeedrate ==
    IF IsNum(gcode_lines[idx].F) THEN float(gcode_lines[idx].F)
    ELSE g1_feedrate

maxFlow == cfg.max_flow \div 100

minFlow == cfg.min_flow \div 100

\* The multiplier of the SmallSegments policy at the distance d.
SmallSegmentsMultiplier(d) ==
    IF d < cfg.gradient_thickness
    THEN mapRange(0, cfg.gradient_thickness, maxFlow, minFlow, d)
    ELSE minFlow

\* C3: under the SmallSegments policy every infill extrusion move is
\* replaced by exactly one line, the source line with its extrusion
\* multiplied by m (mapRange of the midpoint's distance when it is below the
\* gradient thickness, minFlow/100 otherwise) and, when it has no feedrate
\* field, with the field currentFeedrate / m appended, for near and for far
\* moves alike.
C3_SmallSegmentsLine ==
    [][ (InfillMove /\ infill_type = SMALL_SEGMENTS) =>
            LET line == gcode_lines[idx]
                d == min_distance_from_segment(
                         Segment(lastPosition, getXY(line)), perimeterSegments)
                m == SmallSegmentsMultiplier(d)
            IN /\ pc' = "loop"
               /\ lines' = Append(lines,
                      [line EXCEPT
                          !.E = Num(Mul(float(@), m)),
                          !.F = IF Has(@) THEN @
                                ELSE Num(Div(currentFeedrate, m))])
      ]_vars

\* The steps of the Linear policy for the move about to be processed.
LinearSteps ==
    Div(get_points_distance(lastPosition, getXY(gcode_lines[idx])),
        Div(cfg.gradient_thickness, cfg.gradient_discretization))

IsSubMove(l) ==
    l.head = "G1" /\ IsNum(l.X) /\ IsNum(l.Y) /\ IsNum(l.E)

\* The F field of a line written with the feedrate f: none when f is 0.
FeedField(f) == IF f > 0 THEN Num(f) ELSE Absent

\* The lines a subdivided move must add: floor(steps) sub-moves, then one
\* line to the endpoint for the distance that is left, at maxFlow.
SubdividedAsClaimed ==
    LET line == gcode_lines[idx]
        P == getXY(line)
        d == get_points_distance(lastPosition, P)
        n == LinearSteps \div Unit
        old == Len(lines)
        reached == lines'[old + n]
        remainingDistance ==
            get_points_distance(
                Point2D(float(reached.X), float(reached.Y)), P)
        final == lines'[old + n + 1]
    IN /\ pc' = "loop"
       /\ Len(lines') = old + n + 1
       /\ SubSeq(lines', 1, old) = lines
       /\ \A k \in 1..n : IsSubMove(lines'[old + k])
       /\ final.head = "G1"
       /\ final.X = Num(P.x)
       /\ final.Y = Num(P.y)
       /\ final.E = Num(Mul(Mul(Div(remainingDistance, d), float(line.E)),
                            maxFlow))
       /\ final.F = FeedField(Div(currentFeedrate, maxFlow))

\* C4 as stated: floor(steps) + 1 lines when steps >= 2, and otherwise one
\* line, the source line with its extrusion multiplied by maxFlow/100.
C4_LinearLineCount_AsStated ==
    [][ (InfillMove /\ infill_type = LINEAR) =>
            IF LinearSteps >= Fix(2)
            THEN SubdividedAsClaimed
            ELSE /\ pc' = "loop"
                 /\ lines' = Append(lines,
                        [gcode_lines[idx] EXCEPT
                            !.E = Num(Mul(float(@), maxFlow))])
      ]_vars

\* C4 (amended): under the Linear policy a move with steps >= 2 is replaced
\* by floor(steps) sub-move lines and one final line to the endpoint P with
\* extrusion (remainingDistance/d) * E * maxFlow/100 and feedrate
\* currentFeedrate / (maxFlow/100) (no F field when that is 0); a move with
\* steps < 2, d = 0 included, is replaced by one line: the source line with
\* its extrusion multiplied by maxFlow/100 and, when it has no feedrate
\* field, with the field currentFeedrate / (maxFlow/100) appended.
C4_LinearLineCount ==
    [][ (InfillMove /\ infill_type = LINEAR) =>
            IF LinearSteps >= Fix(2)
            THEN SubdividedAsClaimed
            ELSE /\ pc' = "loop"
                 /\ lines' = Append(lines,
                        [gcode_lines[idx] EXCEPT
                            !.E = Num(Mul(float(@), maxFlow)),
                            !.F = IF Has(@) THEN @
                                  ELSE Num(Div(currentFeedrate, maxFlow))])
      ]_vars

\* The Linear policy has subdivided one move and has written another, too
\* short to subdivide, with a feedrate field the source line did not have.
C4_Witness ==
    /\ pc = "loop"
    /\ infill_type = LINEAR
    /\ edit = 2
    /\ Processed = Len(gcode_lines)
    /\ Len(lines) > Len(gcode_lines) + 1
    /\ gcode_lines[Processed] = Extrude(1, 5, 2, Absent)
    /\ lines[Len(lines)].F = Num(Div(Fix(1200), maxFlow))

\* The file of scenario A: relative extrusion, one inner-wall segment
\* (0,0)-(10,0), a move to (0,5) and the infill move to (10,5) with E = 1.
ScenarioA ==
    <<Travel(0, 0, Absent), M83, InnerWallMarker, Extrude(10, 0, 1, Absent),
      SparseInfillMarker, Position(0, 5, 1200), Extrude(10, 5, 1, Absent)>>

ScenarioAWritten ==
    /\ pc = "done"
    /\ gcode_lines = ScenarioA
    /\ infill_type = LINEAR
    /\ cfg = Config(DEFAULT_MAX_FLOW, DEFAULT_MIN_FLOW,
                    DEFAULT_GRADIENT_THICKNESS, DEFAULT_GRADIENT_DISCRETIZATION)

\* C5 as stated: in scenario A the infill move is written as 4 sub-moves and
\* one trailing line, 5 lines in all.
C5_ScenarioA_AsStated ==
    ScenarioAWritten => Len(disk) = Len(ScenarioA) - 1 + 5

\* C5 (amended): in scenario A the infill move is written as 6 sub-moves
\* (steps = 10 / (6/4) = 6.67), each 1.5 further along the move, and one
\* trailing line to (10,5) for the distance that is left, scaled at maxFlow
\* (E = 0.1 * 1 * 2.5): 7 lines in all.
C5_ScenarioA ==
    ScenarioAWritten =>
        /\ Len(disk) = Len(ScenarioA) - 1 + 7
        /\ SubSeq(disk, 1, 6) = SubSeq(ScenarioA, 1, 6)
        /\ \A k \in 1..6 :
              /\ IsSubMove(disk[6 + k])
              /\ disk[6 + k].X = Num(k * 150)
              /\ disk[6 + k].Y = Num(Fix(5))
        /\ disk[13].X = Num(Fix(10))
        /\ disk[13].Y = Num(Fix(5))
        /\ disk[13].E = Num(25)
        /\ disk[13].F = Num(Div(Fix(1200), maxFlow))

C5_Witness == ScenarioAWritten /\ Len(disk) = 13

\* The k-th sub-segment of the move about to be subdivided.
SubSegmentOf(k) ==
    LET direction == segmentDirection(lastPosition, getXY(gcode_lines[idx]), cfg)
    IN Segment(Point2D(lastPosition.x + (k - 1) * direction.x,
                       lastPosition.y + (k - 1) * direction.y),
               Point2D(lastPosition.x + k * direction.x,
                       lastPosition.y + k * direction.y))

RECURSIVE ArcsInInfill(_, _)
ArcsInInfill(ls, k) ==
    IF k = 0 THEN <<>>
    ELSE IF ls[k].head \in {"G2", "G3"} /\ SectionByLastMarker(ls, k) = INFILL
         THEN Append(ArcsInInfill(ls, k - 1), strip(ls[k]))
         ELSE ArcsInInfill(ls, k - 1)

\* C7: an arc line never stops the run and is written unchanged; the arc
\* lines met in an Infill section, and only those, are recorded in file
\* order, and the statistics' arc flag is true at the end exactly when
\* there was one.
C7_ArcsRecorded ==
    /\ [](pc # "start" =>
            /\ g2_g3_lines = ArcsInInfill(gcode_lines, Processed)
            /\ g2_g3_used = (g2_g3_lines # <<>>))
    /\ [](pc \in {"write", "done"} =>
            /\ stats.g2_g3_used
                   = (ArcsInInfill(gcode_lines, Len(gcode_lines)) # <<>>)
            /\ stats.g2_g3_used =>
                   stats.g2_g3_lines
                       = ArcsInInfill(gcode_lines, Len(gcode_lines)))
    /\ [][ (Running /\ gcode_lines[idx].head \in {"G2", "G3"}) =>
               /\ pc' = "loop"
               /\ idx' = idx + 1
               /\ lines' = Append(lines, gcode_lines[idx]) ]_vars

\* A completed run that recorded an arc of the Infill section and wrote it
\* back unchanged.
C7_Witness ==
    /\ pc = "done"
    /\ stats.g2_g3_used
    /\ stats.g2_g3_lines = <<strip(Arc(5, 5, 1))>>
    /\ \E k \in 1..Len(disk) : disk[k] = Arc(5, 5, 1)

\* C10: the perimeter set only grows, and only in the InnerWall section:
\* a line that is an extrusion move, processed while the section is
\* InnerWall, appends Segment(its XY, the position before it); every other
\* step (a line of another section, a layer change) leaves the set as it
\* was.
C10_PerimeterAppendOnly ==
    [][ perimeterSegments' =
            IF /\ Running
               /\ pc' = "loop"
               /\ currentSection' = INNER_WALL
               /\ gcode_lines[idx].head = "G1"
               /\ Has(gcode_lines[idx].X)
               /\ Has(gcode_lines[idx].Y)
               /\ Has(gcode_lines[idx].E)
            THEN Append(perimeterSegments,
                        Segment(getXY(gcode_lines[idx]), lastPosition))
            ELSE perimeterSegments
      ]_vars

\* A second wall segment was appended in an InnerWall section entered after
\* an Infill section.
C10_Witness ==
    /\ Len(perimeterSegments) = 2
    /\ perimeterSegments[1]
           = Segment(Point2D(Fix(10), 0), Point2D(0, 0))
    /\ perimeterSegments[2]
           = Segment(Point2D(Fix(10), Fix(5)), Point2D(0, Fix(5)))
    /\ currentSection = INNER_WALL

RECURSIVE FeedrateSinceMarker(_, _)
\* The feedrate memory after the first k lines of ls as the specification
\* describes it: 0 at a begin-infill marker, the F value of a G0 or G1 line
\* that carries one while the section is Infill, unchanged by any other
\* line.
FeedrateSinceMarker(ls, k) ==
    IF k = 0 THEN 0
    ELSE IF ls[k].head \in {";TYPE:Sparse infill", ";TYPE:Infill"} THEN 0
    ELSE IF /\ SectionByLastMarker(ls, k) = INFILL
            /\ ls[k].head \in {"G0", "G1"}
            /\ IsNum(ls[k].F)
    THEN float(ls[k].F)
    ELSE FeedrateSinceMarker(ls, k - 1)

\* C11: after any processed prefix the current feedrate is the F value of
\* the most recent move (G0 or G1) with a feedrate field processed in the
\* Infill section since the last begin-infill marker, 0 if there was none;
\* lines outside Infill leave it as it was.
C11_FeedrateMemory ==
    pc # "start" =>
        g1_feedrate = FeedrateSinceMarker(gcode_lines, Processed)

\* Line k of ls is an extrusion move of an Infill section.
IsInfillExtrusion(ls, k) ==
    /\ SectionByLastMarker(ls, k) = INFILL
    /\ ls[k].head = "G1"
    /\ Has(ls[k].X) /\ Has(ls[k].Y) /\ Has(ls[k].E)

RECURSIVE InfillExtrusions(_, _)
\* The number of extrusion moves among the first k lines of ls that lie in
\* an Infill section.
InfillExtrusions(ls, k) ==
    IF k = 0 THEN 0
    ELSE InfillExtrusions(ls, k - 1)
         + (IF IsInfillExtrusion(ls, k) THEN 1 ELSE 0)

\* C12: the modification counter is the number of extrusion moves processed
\* in an Infill section, one per input line whatever the number of lines
\* written for it; at the end of a completed run modifications_made is that
\* number for the whole file and changes_made tells whether it is not 0;
\* the end of the loop is never fatal, with zero modifications too: the
\* statistics are filled and the output is written next.
C12_ModificationCounter ==
    /\ [](pc # "start" => edit = InfillExtrusions(gcode_lines, Processed))
    /\ [](pc \in {"write", "done"} =>
            /\ stats.modifications_made
                   = InfillExtrusions(gcode_lines, Len(gcode_lines))
            /\ stats.changes_made = (stats.modifications_made # 0)
            /\ failure = "none")
    /\ [](pc = "done" => disk = lines)
    /\ [][ (pc = "loop" /\ idx > Len(gcode_lines)) =>
               /\ pc' = "write"
               /\ stats'.modifications_made = edit
               /\ stats'.changes_made = (edit # 0) ]_vars
    /\ [][ pc = "write" => (pc' = "done" /\ disk' = lines) ]_vars

\* A completed run that counted two infill extrusion moves, one of them
\* subdivided into several lines, and did not count the wall extrusion move
\* of the same file.
C12_Witness ==
    /\ pc = "done"
    /\ stats.modifications_made = 2
    /\ stats.changes_made
    /\ Len(perimeterSegments) = 1
    /\ Len(disk) >= Len(gcode_lines) + 5

\* The index of the first extrusion move of an Infill section in ls, and
\* Len(ls) + 1 when there is none.
FirstInfillExtrusion(ls) ==
    IF \E k \in 1..Len(ls) : IsInfillExtrusion(ls, k)
    THEN CHOOSE k \in 1..Len(ls) :
             /\ IsInfillExtrusion(ls, k)
             /\ \A j \in 1..(k - 1) : ~IsInfillExtrusion(ls, j)
    ELSE Len(ls) + 1

\* The index of the last extrusion move of an Infill section in ls, and 0
\* when there is none.
LastInfillExtrusion(ls) ==
    IF \E k \in 1..Len(ls) : IsInfillExtrusion(ls, k)
    THEN CHOOSE k \in 1..Len(ls) :
             /\ IsInfillExtrusion(ls, k)
             /\ \A j \in (k + 1)..Len(ls) : ~IsInfillExtrusion(ls, j)
    ELSE 0

\* C13: an iteration that completes appends, after what was written
\* before, the input line itself, once, when the line is not an extrusion
\* move of an Infill section, and one or more lines in its place when it
\* is; nothing else touches the output, so a completed run writes the
\* lines in input order: the lines before the first and after the last
\* infill extrusion move stand unchanged at the two ends of the written
\* file, and a file without infill extrusion move is written back as it
\* was read.
C13_PassThroughInOrder ==
    /\ [][ (Running /\ pc' = "loop") =>
               /\ idx' = idx + 1
               /\ IF IsInfillExtrusion(gcode_lines, idx)
                  THEN /\ Len(lines') >= Len(lines) + 1
                       /\ SubSeq(lines', 1, Len(lines)) = lines
                  ELSE lines' = Append(lines, gcode_lines[idx]) ]_vars
    /\ [][ lines' # lines => (Running /\ pc' = "loop") ]_vars
    /\ [](pc = "done" =>
            LET first == FirstInfillExtrusion(gcode_lines)
                last == LastInfillExtrusion(gcode_lines)
                tail == Len(gcode_lines) - last
            IN /\ disk = lines
               /\ Len(disk) >= Len(gcode_lines)
               /\ SubSeq(disk, 1, first - 1)
                      = SubSeq(gcode_lines, 1, first - 1)
               /\ SubSeq(disk, Len(disk) - tail + 1, Len(disk))
                      = SubSeq(gcode_lines, last + 1, Len(gcode_lines))
               /\ last = 0 => disk = gcode_lines)

\* A completed run that replaced one infill extrusion move by several lines
\* and wrote the travel move that follows it in the Infill section once,
\* unchanged, after them.
C13_Witness ==
    /\ pc = "done"
    /\ stats.modifications_made = 1
    /\ Len(disk) >= Len(gcode_lines) + 2
    /\ LET n == Len(gcode_lines)
           m == Len(disk)
       IN /\ gcode_lines[n] = Travel(0, 5, Num(Fix(1200)))
          /\ IsInfillExtrusion(gcode_lines, n - 1)
          /\ disk[m] = gcode_lines[n]
          /\ disk[m - 1] # gcode_lines[n]
          /\ disk[m - 1].head = "G1"

====
